---- MODULE Spec2Model ----
(***************************************************************************)
(* The in-memory task API of src/les2/oefening1/main.py: the TASKS_DB      *)
(* dictionary, the pydantic request models and the five route handlers.    *)
(* One request is served at a time: a handler step takes the server from   *)
(* idle to a recorded call (request, handler outcome, HTTP response) and   *)
(* Reply delivers the response and drops the request's locals.             *)
(* async_example and relational are the two SQL-backed variants of the     *)
(* same API (src/async_example/main.py, src/main.py), each with its todos  *)
(* table and its response to the request in call; threads holds the        *)
(* worker threads that serve create_task concurrently.                      *)
(***************************************************************************)
EXTENDS Integers, Sequences, FiniteSets, TLC

VARIABLES TASKS_DB, now, call, async_example, relational, threads

vars == <<TASKS_DB, now, call, async_example, relational, threads>>

(* What the handlers of the in-memory API do not touch.                     *)
others == <<async_example, relational, threads>>

----------------------------------------------------------------------------
(* Python / JSON values: None, int and str are kept apart by a tag, a str  *)
(* is its sequence of characters.                                          *)

None == [t |-> "none"]
IntV(n) == [t |-> "int", v |-> n]
StrV(s) == [t |-> "str", v |-> s]
IsInt(x) == x.t = "int"
IsStr(x) == x.t = "str"

----------------------------------------------------------------------------
(* Constraints declared by the request models.                              *)

MinTitleLen == 3
MinPriority == 1
MaxPriority == 5
MinTaskId == 1
MinQueryPriority == 1
MinQueryLen == 3

(* Bound of the model: the number of tasks the store may hold.              *)
MaxTasks == 2

----------------------------------------------------------------------------
(* Inputs the clients send.                                                 *)

Fields == {"title", "description", "priority"}

TitleInputs ==
    { None, StrV(<<"a", "B">>), StrV(<<"a", "B", "a">>), StrV(<<"b", "b", "A", "b">>) }

DescriptionInputs == { None, StrV(<<"d">>) }

PriorityInputs ==
    { None, IntV(MinPriority - 1), IntV(MinPriority), IntV(MaxPriority),
      IntV(MaxPriority + 1), StrV(<<"a">>) }

FieldInputs(f) ==
    CASE f = "title" -> TitleInputs
      [] f = "description" -> DescriptionInputs
      [] f = "priority" -> PriorityInputs

(* A JSON object body: any subset of the three keys, each with a value.     *)
Payloads ==
    UNION { { p \in [S -> TitleInputs \cup DescriptionInputs \cup PriorityInputs] :
                \A f \in S : p[f] \in FieldInputs(f) } : S \in SUBSET Fields }

TaskIdInputs == 0 .. (MaxTasks + 1)

MinPriorityInputs ==
    { None, IntV(MinQueryPriority - 1), IntV(MinPriority), IntV(MaxPriority),
      IntV(MaxPriority + 1) }

CookieInputs == { None, StrV(<<"0">>), StrV(<<"5">>), StrV(<<"6">>), StrV(<<"a">>) }

QueryInputs ==
    { None, StrV(<<>>), StrV(<<"B", "a">>), StrV(<<"A", "B", "A">>),
      StrV(<<"b", "a", "b">>), StrV(<<"b", "A", "b", "a">>) }

----------------------------------------------------------------------------
(* str.lower() and the `in` operator on strings.                            *)

LowerChar(c) ==
    CASE c = "A" -> "a"
      [] c = "B" -> "b"
      [] OTHER -> c

lower(s) == [i \in 1 .. Len(s) |-> LowerChar(s[i])]

Contains(needle, hay) ==
    \E i \in 0 .. (Len(hay) - Len(needle)) :
        \A j \in 1 .. Len(needle) : hay[i + j] = needle[j]

(* int() of a cookie string and str() of an int, on one decimal digit.      *)
Digits == <<"0", "1", "2", "3", "4", "5", "6", "7", "8", "9">>

IsDigits(s) == Len(s) = 1 /\ \E d \in 1 .. Len(Digits) : Digits[d] = s[1]

ParseInt(s) == (CHOOSE d \in 1 .. Len(Digits) : Digits[d] = s[1]) - 1

ToStr(n) == <<Digits[n + 1]>>

----------------------------------------------------------------------------
(* The dict TASKS_DB: its entries in insertion order.                       *)

Keys(db) == { db[i].key : i \in DOMAIN db }

HasKey(db, k) == k \in Keys(db)

GetItem(db, k) == db[CHOOSE i \in DOMAIN db : db[i].key = k].value

(* As SetItem, but an assigned key moves to the end of the dict.            *)
SetItem_MoveToEnd(db, k, v) ==
    LET NotK(e) == e.key # k
    IN  Append(SelectSeq(db, NotK), [key |-> k, value |-> v])

SetItem(db, k, v) ==
    IF HasKey(db, k)
    THEN [i \in DOMAIN db |-> IF db[i].key = k THEN [key |-> k, value |-> v] ELSE db[i]]
    ELSE Append(db, [key |-> k, value |-> v])

Values(db) == [i \in DOMAIN db |-> db[i].value]

MaxOf(S, default) == IF S = {} THEN default ELSE CHOOSE m \in S : \A x \in S : x <= m

----------------------------------------------------------------------------
(* The pydantic models.                                                     *)

ValidTitle(v) == IsStr(v) /\ Len(v.v) >= MinTitleLen

ValidDescription(v) == v = None \/ IsStr(v)

(* As ValidPriority, without the le=5 bound.                                *)
ValidPriority_NoUpper(v) == IsInt(v) /\ v.v >= MinPriority

ValidPriority(v) == IsInt(v) /\ v.v >= MinPriority /\ v.v <= MaxPriority

(* TaskCreate built from the body: title and priority are required,        *)
(* description defaults to None.                                            *)
TaskCreateValid(p) ==
    /\ "title" \in DOMAIN p /\ ValidTitle(p.title)
    /\ "description" \in DOMAIN p => ValidDescription(p.description)
    /\ "priority" \in DOMAIN p /\ ValidPriority(p.priority)

(* TaskUpdate built from the body: title and priority become optional and  *)
(* nullable.                                                                *)
TaskUpdateValid(p) ==
    /\ "title" \in DOMAIN p => (p.title = None \/ ValidTitle(p.title))
    /\ "description" \in DOMAIN p => ValidDescription(p.description)
    /\ "priority" \in DOMAIN p => (p.priority = None \/ ValidPriority(p.priority))

(* model_dump(): every field, the unset ones at their default.              *)
model_dump(p) == [f \in Fields |-> IF f \in DOMAIN p THEN p[f] ELSE None]

(* As model_dump_exclude_unset, without exclude_unset.                      *)
model_dump_with_unset(p) == model_dump(p)

(* model_dump(exclude_unset=True): the fields the body carried.             *)
model_dump_exclude_unset(p) == p

(* model_copy(update=...): a copy with the given fields replaced, nothing   *)
(* validated.                                                               *)
model_copy(obj, update) ==
    [f \in DOMAIN obj |-> IF f \in DOMAIN update THEN update[f] ELSE obj[f]]

(* TaskInternal built from task_id and the dumped fields; created_at is    *)
(* the clock.                                                               *)
TaskInternal(task_id, fields, created_at) ==
    [ title |-> fields.title, description |-> fields.description,
      priority |-> fields.priority, task_id |-> task_id, created_at |-> created_at ]

(* response_model=TaskExternal: the record is validated against            *)
(* TaskExternal and serialised with task_id under the alias id.             *)
TaskExternalValid(task) ==
    ValidTitle(task.title) /\ ValidDescription(task.description) /\ ValidPriority(task.priority)

TaskExternal(task) ==
    [ title |-> task.title, description |-> task.description,
      priority |-> task.priority, id |-> task.task_id ]

TaskId(task_id) == task_id >= MinTaskId

----------------------------------------------------------------------------
(* HTTP outcomes.                                                           *)

Idle == [op |-> "idle"]

Rejected(op, req) == [op |-> op, req |-> req, status |-> "422"]

(* As NotFound, answering 400 instead of 404.                               *)
NotFound_BadRequest(op, req) ==
    [op |-> op, req |-> req, status |-> "400", detail |-> "Task not found"]

NotFound(op, req) ==
    [op |-> op, req |-> req, status |-> "404", detail |-> "Task not found"]

(* The handler returned ret; the response is ret through the response      *)
(* model, or a 500 when ret does not validate against it.                   *)
Returned(op, req, ret, status) ==
    IF TaskExternalValid(ret)
    THEN [op |-> op, req |-> req, ret |-> ret, status |-> status, body |-> TaskExternal(ret)]
    ELSE [op |-> op, req |-> req, ret |-> ret, status |-> "500"]

----------------------------------------------------------------------------
(* Preference: min_priority is a required int in 1..5.                     *)
PreferenceValid(v) == IsInt(v) /\ v.v >= MinPriority /\ v.v <= MaxPriority

(* The parameters of list_tasks: min_priority is an int >= 1 or absent, q  *)
(* a string of at least 3 characters or absent, the min_priority cookie a  *)
(* string that parses as an int, or absent.                                 *)
ListParamsValid(req) ==
    /\ req.min_priority = None
         \/ (IsInt(req.min_priority) /\ req.min_priority.v >= MinQueryPriority)
    /\ req.query = None \/ (IsStr(req.query) /\ Len(req.query.v) >= MinQueryLen)
    /\ req.cookie = None \/ (IsStr(req.cookie) /\ IsDigits(req.cookie.v))

CookieValue(cookie) == IF cookie = None THEN None ELSE IntV(ParseInt(cookie.v))

----------------------------------------------------------------------------
(* The body of list_tasks, on the values of the store.                      *)

Raised(error) == [ok |-> FALSE, error |-> error]

Ok(results) == [ok |-> TRUE, results |-> results]

(* As EffectiveMinPriority, with the cookie taking precedence.              *)
EffectiveMinPriority_CookieFirst(min_priority, cookie_min_priority) ==
    IF cookie_min_priority # None THEN cookie_min_priority ELSE min_priority

(* if min_priority is None and cookie_min_priority is not None: ...         *)
EffectiveMinPriority(min_priority, cookie_min_priority) ==
    IF min_priority = None /\ cookie_min_priority # None
    THEN cookie_min_priority
    ELSE min_priority

(* t.priority >= min_priority; None >= int raises TypeError.                *)
PriorityAtLeast(t, min_priority) == t.priority.v >= min_priority.v

FilterPriority(results, min_priority) ==
    IF \E i \in DOMAIN results : ~IsInt(results[i].priority)
    THEN Raised("TypeError")
    ELSE LET Keep(t) == PriorityAtLeast(t, min_priority)
         IN  Ok(SelectSeq(results, Keep))

(* As TitleMatches, with the operands of `in` exchanged.                    *)
TitleMatches_Swapped(t, query) == Contains(lower(t.title.v), lower(query.v))

(* query.lower() in t.title.lower(); None.lower() raises AttributeError.    *)
TitleMatches(t, query) == Contains(lower(query.v), lower(t.title.v))

FilterQuery(results, query) ==
    IF \E i \in DOMAIN results : ~IsStr(results[i].title)
    THEN Raised("AttributeError")
    ELSE LET Keep(t) == TitleMatches(t, query)
         IN  Ok(SelectSeq(results, Keep))

(* A str is true unless it is empty.                                        *)
Truthy(query) == query # None /\ query.v # <<>>

list_tasks_result(tasks, min_priority, query, cookie_min_priority) ==
    LET effective == EffectiveMinPriority(min_priority, cookie_min_priority)
        by_priority == IF effective # None THEN FilterPriority(tasks, effective) ELSE Ok(tasks)
    IN  IF ~by_priority.ok
        THEN by_priority
        ELSE IF Truthy(query)
             THEN FilterQuery(by_priority.results, query)
             ELSE by_priority

(* response_model=list[TaskExternal]                                        *)
Listed(req, effective, ret) ==
    IF ret.ok /\ \A i \in DOMAIN ret.results : TaskExternalValid(ret.results[i])
    THEN [ op |-> "list_tasks", req |-> req, min_priority |-> effective, ret |-> ret,
           status |-> "200",
           body |-> [i \in DOMAIN ret.results |-> TaskExternal(ret.results[i])] ]
    ELSE [ op |-> "list_tasks", req |-> req, min_priority |-> effective, ret |-> ret,
           status |-> "500" ]

----------------------------------------------------------------------------

(* A variant before any request: an empty todos table, nothing answered.   *)
EmptyVariant == [todos |-> <<>>, resp |-> Idle]

(* A worker thread that serves no request.                                  *)
Waiting == [pc |-> "waiting"]

(* The worker threads of the threadpool that runs the sync handlers.        *)
MaxWorkers == 2

Workers == 1 .. MaxWorkers

Init ==
    /\ TASKS_DB = <<>>
    /\ now = 0
    /\ call = Idle
    /\ async_example = EmptyVariant
    /\ relational = EmptyVariant
    /\ threads = [served |-> 0, worker |-> [w \in Workers |-> Waiting]]

(* As next_task_id, with max(..., default=1).                               *)
next_task_id_default_one(db) == MaxOf(Keys(db), 1) + 1

(* max(TASKS_DB.keys(), default=0) + 1                                      *)
next_task_id(db) == MaxOf(Keys(db), 0) + 1

(* POST /tasks                                                              *)
create_task ==
    /\ call = Idle
    /\ \E task \in Payloads :
         IF ~TaskCreateValid(task)
         THEN /\ call' = Rejected("create_task", [task |-> task])
              /\ UNCHANGED <<TASKS_DB, now>>
         ELSE /\ Len(TASKS_DB) < MaxTasks
              /\ LET new_task == TaskInternal(next_task_id(TASKS_DB), model_dump(task), now)
                 IN  /\ TASKS_DB' = SetItem(TASKS_DB, next_task_id(TASKS_DB), new_task)
                     /\ call' = Returned("create_task", [task |-> task], new_task, "201")
              /\ now' = now + 1
    /\ UNCHANGED others

(* GET /tasks/{task_id}                                                     *)
get_task ==
    /\ call = Idle
    /\ \E task_id \in TaskIdInputs :
         LET req == [task_id |-> task_id]
         IN  IF ~TaskId(task_id)
             THEN call' = Rejected("get_task", req)
             ELSE IF HasKey(TASKS_DB, task_id)
                  THEN call' = Returned("get_task", req, GetItem(TASKS_DB, task_id), "200")
                  ELSE call' = NotFound("get_task", req)
    /\ UNCHANGED <<TASKS_DB, now>>
    /\ UNCHANGED others

(* GET /tasks                                                               *)
list_tasks ==
    /\ call = Idle
    /\ \E min_priority \in MinPriorityInputs, query \in QueryInputs, cookie \in CookieInputs :
         LET req == [min_priority |-> min_priority, query |-> query, cookie |-> cookie]
         IN  IF ~ListParamsValid(req)
             THEN call' = Rejected("list_tasks", req)
             ELSE call' = Listed(req, EffectiveMinPriority(min_priority, CookieValue(cookie)),
                                 list_tasks_result(Values(TASKS_DB), min_priority, query,
                                                   CookieValue(cookie)))
    /\ UNCHANGED <<TASKS_DB, now>>
    /\ UNCHANGED others

(* PATCH /tasks/{task_id}                                                   *)
update_task ==
    /\ call = Idle
    /\ \E task_id \in TaskIdInputs, task_data \in Payloads :
         LET req == [task_id |-> task_id, task_data |-> task_data]
         IN  IF ~TaskId(task_id) \/ ~TaskUpdateValid(task_data)
             THEN /\ call' = Rejected("update_task", req)
                  /\ UNCHANGED TASKS_DB
             ELSE IF ~HasKey(TASKS_DB, task_id)
                  THEN /\ call' = NotFound("update_task", req)
                       /\ UNCHANGED TASKS_DB
                  ELSE LET stored_task == GetItem(TASKS_DB, task_id)
                           update_data == model_dump_exclude_unset(task_data)
                           updated_task == model_copy(stored_task, update_data)
                       IN  /\ TASKS_DB' = SetItem(TASKS_DB, task_id, updated_task)
                           /\ call' = Returned("update_task", req, updated_task, "200")
    /\ UNCHANGED now
    /\ UNCHANGED others

(* POST /preferences                                                        *)
set_preferences ==
    /\ call = Idle
    /\ \E pref \in PriorityInputs :
         IF ~PreferenceValid(pref)
         THEN call' = Rejected("set_preferences", [min_priority |-> pref])
         ELSE call' = [ op |-> "set_preferences", req |-> [min_priority |-> pref],
                        status |-> "204",
                        set_cookie |-> [key |-> "min_priority", value |-> StrV(ToStr(pref.v))] ]
    /\ UNCHANGED <<TASKS_DB, now>>
    /\ UNCHANGED others

(* The response is sent; the request is over.                               *)
Reply ==
    /\ call # Idle
    /\ call' = Idle
    /\ UNCHANGED <<TASKS_DB, now>>
    /\ UNCHANGED others

Next ==
    \/ create_task
    \/ get_task
    \/ list_tasks
    \/ update_task
    \/ set_preferences
    \/ Reply

Spec == Init /\ [][Next]_vars

----------------------------------------------------------------------------
(* The async SQL variant, src/async_example/main.py: the same request      *)
(* models, a todos table in SQLite behind SQLAlchemy.                       *)

Answer(status) == [status |-> status]

AnswerBody(status, body) == [status |-> status, body |-> body]

(* autoincrement primary key: one more than the largest id of the table.    *)
NextRowId(todos) == MaxOf({ todos[i].task_id : i \in DOMAIN todos }, 0) + 1

RowIndex(todos, task_id) == { i \in DOMAIN todos : todos[i].task_id = task_id }

ReplaceRow(todos, task_id, row) ==
    [i \in DOMAIN todos |-> IF todos[i].task_id = task_id THEN row ELSE todos[i]]

(* StoredTask: title, description and priority are Mapped[str] / Mapped[int] *)
(* columns, so NOT NULL; a commit that breaks it raises IntegrityError.     *)
AsyncNotNull(row) == row.title # None /\ row.description # None /\ row.priority # None

AsyncExternal(row) ==
    [ title |-> row.title, description |-> row.description,
      priority |-> row.priority, id |-> row.task_id ]

async_create_task(todos, task) ==
    IF ~TaskCreateValid(task)
    THEN [todos |-> todos, resp |-> Answer("422")]
    ELSE LET fields == model_dump(task)
             new_task == [ task_id |-> NextRowId(todos), title |-> fields.title,
                           description |-> fields.description, priority |-> fields.priority ]
         IN  IF ~AsyncNotNull(new_task)
             THEN [todos |-> todos, resp |-> Answer("500")]
             ELSE [todos |-> Append(todos, new_task),
                   resp |-> AnswerBody("201", AsyncExternal(new_task))]

(* task_id: int, without the ge=1 of TaskId.                                *)
async_get_task(todos, task_id) ==
    IF RowIndex(todos, task_id) = {}
    THEN [todos |-> todos, resp |-> Answer("404")]
    ELSE [todos |-> todos,
          resp |-> AnswerBody("200",
                     AsyncExternal(todos[CHOOSE i \in RowIndex(todos, task_id) : TRUE]))]

(* func.lower(StoredTask.title.contains(query.lower())): title LIKE        *)
(* '%' || lower(q) || '%', and SQLite's LIKE ignores the case of ASCII     *)
(* letters; lower() is applied to the outcome of the comparison.            *)
AsyncTitleMatches(row, query) == Contains(lower(lower(query.v)), lower(row.title.v))

async_list_tasks(todos, req) ==
    IF ~ListParamsValid(req)
    THEN [todos |-> todos, resp |-> Answer("422")]
    ELSE LET min_priority == EffectiveMinPriority(req.min_priority, CookieValue(req.cookie))
             Keep(row) ==
                /\ min_priority # None => row.priority.v >= min_priority.v
                /\ Truthy(req.query) => AsyncTitleMatches(row, req.query)
             rows == SelectSeq(todos, Keep)
         IN  [todos |-> todos,
              resp |-> AnswerBody("200", [i \in DOMAIN rows |-> AsyncExternal(rows[i])])]

async_update_task(todos, task_id, task_data) ==
    IF ~TaskUpdateValid(task_data)
    THEN [todos |-> todos, resp |-> Answer("422")]
    ELSE IF RowIndex(todos, task_id) = {}
         THEN [todos |-> todos, resp |-> Answer("404")]
         ELSE LET stored_task == todos[CHOOSE i \in RowIndex(todos, task_id) : TRUE]
                  update_data == model_dump_exclude_unset(task_data)
                  updated == model_copy(stored_task, update_data)
              IN  IF ~AsyncNotNull(updated)
                  THEN [todos |-> todos, resp |-> Answer("500")]
                  ELSE [todos |-> ReplaceRow(todos, task_id, updated),
                        resp |-> AnswerBody("200", AsyncExternal(updated))]

(* The async variant serves the request that call holds.                    *)
async_serve ==
    /\ call # Idle
    /\ async_example.resp = Idle
    /\ async_example' =
         CASE call.op = "create_task" -> async_create_task(async_example.todos, call.req.task)
           [] call.op = "get_task" -> async_get_task(async_example.todos, call.req.task_id)
           [] call.op = "list_tasks" -> async_list_tasks(async_example.todos, call.req)
           [] call.op = "update_task" ->
                async_update_task(async_example.todos, call.req.task_id, call.req.task_data)
    /\ UNCHANGED <<TASKS_DB, now, call, relational, threads>>

----------------------------------------------------------------------------
(* The variant with a priority relation, src/main.py: SQLModel models, the *)
(* priority of a task is the foreign key priority_id.                       *)

(* The same request for this variant: priority is sent as priority_id.      *)
RelationalBody(p) ==
    [ f \in (DOMAIN p \ {"priority"}) \cup
            (IF "priority" \in DOMAIN p THEN {"priority_id"} ELSE {}) |->
        IF f = "priority_id" THEN p.priority ELSE p[f] ]

(* TaskCreate: title, description, priority_id (required, 1..5), label.     *)
RelationalTaskCreateValid(p) ==
    /\ "title" \in DOMAIN p /\ ValidTitle(p.title)
    /\ "description" \in DOMAIN p => ValidDescription(p.description)
    /\ "priority_id" \in DOMAIN p /\ ValidPriority(p.priority_id)

(* TaskUpdate(TaskCreate) makes title optional and adds an optional field  *)
(* priority; priority_id is inherited as it is, required.                   *)
RelationalTaskUpdateValid(p) ==
    /\ "title" \in DOMAIN p => (p.title = None \/ ValidTitle(p.title))
    /\ "description" \in DOMAIN p => ValidDescription(p.description)
    /\ "priority" \in DOMAIN p => (p.priority = None \/ ValidPriority(p.priority))
    /\ "priority_id" \in DOMAIN p /\ ValidPriority(p.priority_id)

(* The response as the other variants give it: priority_id as priority.     *)
RelationalExternal(row) ==
    [ title |-> row.title, description |-> row.description,
      priority |-> row.priority_id, id |-> row.task_id ]

(* The priority table is taken to hold a row for each of 1..5, so that the *)
(* foreign key of an accepted body is satisfied.                            *)
relational_create_task(todos, task) ==
    IF ~RelationalTaskCreateValid(task)
    THEN [todos |-> todos, resp |-> Answer("422")]
    ELSE LET new_task == [ task_id |-> NextRowId(todos), title |-> task.title,
                           description |->
                              IF "description" \in DOMAIN task THEN task.description ELSE None,
                           priority_id |-> task.priority_id, label |-> None ]
         IN  [todos |-> Append(todos, new_task),
              resp |-> AnswerBody("201", RelationalExternal(new_task))]

relational_get_task(todos, task_id) ==
    IF RowIndex(todos, task_id) = {}
    THEN [todos |-> todos, resp |-> Answer("404")]
    ELSE [todos |-> todos,
          resp |-> AnswerBody("200",
                     RelationalExternal(todos[CHOOSE i \in RowIndex(todos, task_id) : TRUE]))]

(* StoredTask.priority is the Relationship to Priority, which has no >=:   *)
(* building the where clause raises, whatever the table holds.              *)
relational_list_tasks(todos, req) ==
    IF ~ListParamsValid(req)
    THEN [todos |-> todos, resp |-> Answer("422")]
    ELSE IF EffectiveMinPriority(req.min_priority, CookieValue(req.cookie)) # None
         THEN [todos |-> todos, resp |-> Answer("500")]
         ELSE LET Keep(row) ==
                     Truthy(req.query) => Contains(lower(req.query.v), lower(row.title.v))
                  rows == SelectSeq(todos, Keep)
              IN  [todos |-> todos,
                   resp |-> AnswerBody("200",
                              [i \in DOMAIN rows |-> RelationalExternal(rows[i])])]

(* title is a str column, NOT NULL.                                         *)
relational_update_task(todos, task_id, task_data) ==
    IF ~RelationalTaskUpdateValid(task_data)
    THEN [todos |-> todos, resp |-> Answer("422")]
    ELSE IF RowIndex(todos, task_id) = {}
         THEN [todos |-> todos, resp |-> Answer("404")]
         ELSE LET stored_task == todos[CHOOSE i \in RowIndex(todos, task_id) : TRUE]
                  updated == model_copy(stored_task, task_data)
              IN  IF updated.title = None
                  THEN [todos |-> todos, resp |-> Answer("500")]
                  ELSE [todos |-> ReplaceRow(todos, task_id, updated),
                        resp |-> AnswerBody("200", RelationalExternal(updated))]

(* The relational variant serves the request that call holds.               *)
relational_serve ==
    /\ call # Idle
    /\ async_example.resp # Idle
    /\ relational.resp = Idle
    /\ relational' =
         CASE call.op = "create_task" ->
                relational_create_task(relational.todos, RelationalBody(call.req.task))
           [] call.op = "get_task" -> relational_get_task(relational.todos, call.req.task_id)
           [] call.op = "list_tasks" -> relational_list_tasks(relational.todos, call.req)
           [] call.op = "update_task" ->
                relational_update_task(relational.todos, call.req.task_id,
                                       RelationalBody(call.req.task_data))
    /\ UNCHANGED <<TASKS_DB, now, call, async_example, threads>>

(* Two responses agree: the same status and, on success, the same tasks.   *)
SameAnswer(a, b) ==
    /\ a.status = b.status
    /\ a.status \in {"200", "201"} => a.body = b.body

(* The three responses are delivered and compared; the sequence of        *)
(* requests goes on for as long as the variants have agreed.                *)
reply_all ==
    /\ call # Idle
    /\ async_example.resp # Idle
    /\ relational.resp # Idle
    /\ SameAnswer(call, async_example.resp)
    /\ SameAnswer(call, relational.resp)
    /\ call' = Idle
    /\ async_example' = [async_example EXCEPT !.resp = Idle]
    /\ relational' = [relational EXCEPT !.resp = Idle]
    /\ UNCHANGED <<TASKS_DB, now, threads>>

(* The same sequence of create, get, list and patch requests sent to the   *)
(* three variants.                                                          *)
NextVariants ==
    \/ create_task
    \/ get_task
    \/ list_tasks
    \/ update_task
    \/ async_serve
    \/ relational_serve
    \/ reply_all

SpecVariants == Init /\ [][NextVariants]_vars

----------------------------------------------------------------------------
(* create_task served concurrently: the handler is a plain def, which the  *)
(* framework runs on a worker thread of its threadpool, so two requests    *)
(* can be inside the handler at once and a thread switch can fall between  *)
(* its statements.                                                          *)

Storing(w) == threads.worker[w].pc = "store"

InFlight == Cardinality({ w \in Workers : Storing(w) })

(* Worker w runs the handler up to the new record: it reads the largest    *)
(* key of TASKS_DB and builds new_task with the next identifier.            *)
create_task_read(w) ==
    /\ call = Idle
    /\ threads.worker[w] = Waiting
    /\ threads.served + InFlight < MaxTasks
    /\ \E task \in Payloads :
         /\ TaskCreateValid(task)
         /\ threads' =
              [threads EXCEPT !.worker[w] =
                 [ pc |-> "store",
                   next_task_id |-> next_task_id(TASKS_DB),
                   new_task |-> TaskInternal(next_task_id(TASKS_DB), model_dump(task), now) ]]
    /\ now' = now + 1
    /\ UNCHANGED <<TASKS_DB, call, async_example, relational>>

(* Worker w runs the rest of the handler: it stores new_task under the     *)
(* identifier it computed and returns it; the request is answered 201.      *)
create_task_store(w) ==
    /\ Storing(w)
    /\ TASKS_DB' = SetItem(TASKS_DB, threads.worker[w].next_task_id, threads.worker[w].new_task)
    /\ threads' = [threads EXCEPT !.worker[w] = Waiting, !.served = @ + 1]
    /\ UNCHANGED <<now, call, async_example, relational>>

NextConcurrent ==
    \E w \in Workers :
        \/ create_task_read(w)
        \/ create_task_store(w)

SpecConcurrent == Init /\ [][NextConcurrent]_vars

----------------------------------------------------------------------------
(* Properties.                                                              *)

(* A list_tasks request that passed the validation of its parameters.       *)
ListServed == call.op = "list_tasks" /\ call.status # "422"

(* The integer the min_priority cookie of the served request carries.       *)
ServedCookie ==
    IF call.req.cookie = None THEN None ELSE IntV(ParseInt(call.req.cookie.v))

InResults(t, results) == \E j \in DOMAIN results : results[j] = t

(* C1: the threshold list_tasks filters by is the explicit min_priority    *)
(* whenever it is given (whatever the cookie says), the cookie's value     *)
(* when only the cookie is given, and absent when neither is given; the    *)
(* tasks a served request returns all reach that threshold, and without a  *)
(* query they are all the stored tasks that reach it.                       *)
C1_Precedence ==
    ListServed =>
        LET explicit == call.req.min_priority
            expected == IF explicit # None THEN explicit ELSE ServedCookie
        IN  /\ call.min_priority = expected
            /\ call.ret.ok =>
                 \A i \in DOMAIN TASKS_DB :
                    LET t == TASKS_DB[i].value
                    IN  /\ InResults(t, call.ret.results) =>
                             (expected = None \/ t.priority.v >= expected.v)
                        /\ ( /\ call.req.query = None
                             /\ expected = None \/ t.priority.v >= expected.v )
                           => InResults(t, call.ret.results)

(* C1 witness: explicit min_priority 1 and cookie 5 on priorities [1, 5]    *)
(* returns both tasks.                                                      *)
C1_Witness ==
    /\ ListServed
    /\ call.req.min_priority = IntV(1)
    /\ call.req.cookie = StrV(<<"5">>)
    /\ call.ret.ok
    /\ Len(call.ret.results) = 2
    /\ call.ret.results[1].priority = IntV(1)
    /\ call.ret.results[2].priority = IntV(5)

(* The tasks of the store that meet the criteria of the served request:     *)
(* priority at least P when a threshold P is in force, and the lowercased   *)
(* query inside the lowercased title when a query is given.                 *)
Matching ==
    LET P == IF call.req.min_priority # None THEN call.req.min_priority ELSE ServedCookie
        Q == call.req.query
    IN  { TASKS_DB[i].value : i \in
            { i \in DOMAIN TASKS_DB :
                LET t == TASKS_DB[i].value
                IN  /\ P = None \/ (IsInt(t.priority) /\ t.priority.v >= P.v)
                    /\ Q = None \/ (IsStr(t.title) /\ Contains(lower(Q.v), lower(t.title.v))) } }

(* C2: every served list_tasks request returns exactly the stored tasks    *)
(* that meet both active criteria (threshold and query), no more, no less.  *)
C2_FilterExact ==
    ListServed =>
        /\ call.ret.ok
        /\ { call.ret.results[j] : j \in DOMAIN call.ret.results } = Matching

(* An update_task request that found its task: path and body validated.     *)
UpdateApplied ==
    /\ call'.op = "update_task"
    /\ call'.req.task_id >= 1
    /\ TaskUpdateValid(call'.req.task_data)
    /\ call'.req.task_id \in Keys(TASKS_DB)

(* C3: update_task stores and returns the previous record with exactly the *)
(* fields of the body overwritten by the body's values; the other fields,  *)
(* task_id and created_at keep their values, and every other entry of the  *)
(* store is left as it was.                                                 *)
C3_PartialUpdate ==
    [][ UpdateApplied =>
          LET k == call'.req.task_id
              body == call'.req.task_data
              old == GetItem(TASKS_DB, k)
              new == GetItem(TASKS_DB', k)
          IN  /\ call'.ret = new
              /\ \A f \in Fields :
                    new[f] = IF f \in DOMAIN body THEN body[f] ELSE old[f]
              /\ new.task_id = old.task_id
              /\ new.created_at = old.created_at
              /\ Len(TASKS_DB') = Len(TASKS_DB)
              /\ \A i \in DOMAIN TASKS_DB :
                    /\ TASKS_DB'[i].key = TASKS_DB[i].key
                    /\ TASKS_DB[i].key # k => TASKS_DB'[i] = TASKS_DB[i] ]_vars

(* C3 witness: a body carrying only a description was applied to a task of *)
(* a store of two; title and priority are still those it was created with. *)
C3_Witness ==
    /\ call.op = "update_task"
    /\ call.status = "200"
    /\ DOMAIN call.req.task_data = {"description"}
    /\ call.req.task_data.description = StrV(<<"d">>)
    /\ call.body.title = StrV(<<"a", "B", "a">>)
    /\ call.body.priority = IntV(5)
    /\ call.body.description = StrV(<<"d">>)
    /\ Len(TASKS_DB) = 2

(* C4: starting from the empty store, the k-th accepted create_task is     *)
(* given the identifier k = max(existing ids, default 0) + 1 and is stored *)
(* under it as a new entry; no other request adds an entry; and no step    *)
(* changes the key or the task_id of an entry already stored.               *)
C4_IdAssignment ==
    [][ /\ (call'.op = "create_task" /\ call'.status = "201") =>
              LET k == Len(TASKS_DB) + 1
              IN  /\ call'.ret.task_id = k
                  /\ call'.body.id = k
                  /\ \A j \in Keys(TASKS_DB) : j < k
                  /\ (TASKS_DB = <<>>) => k = 1
                  /\ Len(TASKS_DB') = k
                  /\ TASKS_DB'[k] = [key |-> k, value |-> call'.ret]
        /\ ~(call'.op = "create_task" /\ call'.status = "201") =>
              Len(TASKS_DB') = Len(TASKS_DB)
        /\ \A i \in DOMAIN TASKS_DB :
              /\ TASKS_DB'[i].key = TASKS_DB[i].key
              /\ TASKS_DB'[i].value.task_id = TASKS_DB[i].value.task_id
              /\ TASKS_DB'[i].key = i
              /\ TASKS_DB'[i].value.task_id = i ]_vars

(* C4 witness: the second accepted create_task, answered with id 2, after  *)
(* the first task was updated.                                              *)
C4_Witness ==
    /\ call.op = "create_task"
    /\ call.status = "201"
    /\ call.body.id = 2
    /\ Len(TASKS_DB) = 2
    /\ TASKS_DB[1].value.title = None

(* A get_task or update_task request whose path (and body) validated.       *)
LookupServed ==
    /\ call'.op \in {"get_task", "update_task"}
    /\ call'.req.task_id >= 1
    /\ call'.op = "update_task" => TaskUpdateValid(call'.req.task_data)

(* C5: get_task and update_task answer 404 "Task not found" for an         *)
(* identifier that is not in the store, and leave the store as it was;     *)
(* for an identifier that is in the store neither answers 404.              *)
C5_NotFound ==
    [][ LookupServed =>
          IF call'.req.task_id \in Keys(TASKS_DB)
          THEN call'.status # "404"
          ELSE /\ call'.status = "404"
               /\ call'.detail = "Task not found"
               /\ TASKS_DB' = TASKS_DB ]_vars

(* C5 witness: update_task on an identifier missing from a non-empty store *)
(* was answered 404.                                                        *)
C5_Witness ==
    /\ call.op = "update_task"
    /\ call.status = "404"
    /\ call.req.task_id = 2
    /\ DOMAIN call.req.task_data = {"description"}
    /\ Len(TASKS_DB) = 1

(* The integer a list_tasks request carries as min_priority cookie, when   *)
(* it carries one.                                                          *)
CookieOutOfRange ==
    /\ call.req.cookie # None
    /\ IsDigits(call.req.cookie.v)
    /\ LET n == ParseInt(call.req.cookie.v) IN n < 1 \/ n > 5

(* C6: a list_tasks request whose min_priority or whose min_priority       *)
(* cookie is outside 1..5, or whose q has fewer than 3 characters, is      *)
(* rejected before the filter runs; so the threshold the filter uses is    *)
(* absent or in 1..5.                                                       *)
C6_ListValidation ==
    call.op = "list_tasks" =>
        /\ ( \/ ( /\ IsInt(call.req.min_priority)
                  /\ call.req.min_priority.v < 1 \/ call.req.min_priority.v > 5 )
             \/ CookieOutOfRange
             \/ (IsStr(call.req.query) /\ Len(call.req.query.v) < 3) )
           => call.status = "422"
        /\ call.status # "422" =>
             \/ call.min_priority = None
             \/ (call.min_priority.v >= 1 /\ call.min_priority.v <= 5)

(* The body of a create_task request is one the claim calls acceptable:    *)
(* a title of at least 3 characters and an integer priority in 1..5.        *)
CreateAcceptable(p) ==
    /\ "title" \in DOMAIN p /\ IsStr(p.title) /\ Len(p.title.v) >= 3
    /\ "priority" \in DOMAIN p /\ IsInt(p.priority)
    /\ p.priority.v >= 1 /\ p.priority.v <= 5

(* C7: create_task answers 422 to a body whose title is shorter than 3     *)
(* characters or whose priority is not an integer in 1..5, and then the    *)
(* store is unchanged, so that the next identifier is too; every other     *)
(* body is answered 201 with the submitted title, description and priority *)
(* and the identifier max(existing ids, default 0) + 1.                     *)
C7_CreateValidation ==
    [][ call'.op = "create_task" =>
          LET p == call'.req.task
          IN  IF CreateAcceptable(p)
              THEN /\ call'.status = "201"
                   /\ call'.body.title = p.title
                   /\ call'.body.priority = p.priority
                   /\ call'.body.description =
                        IF "description" \in DOMAIN p THEN p.description ELSE None
                   /\ call'.body.id = MaxOf(Keys(TASKS_DB), 0) + 1
              ELSE /\ call'.status = "422"
                   /\ TASKS_DB' = TASKS_DB
                   /\ MaxOf(Keys(TASKS_DB'), 0) = MaxOf(Keys(TASKS_DB), 0) ]_vars

(* C7 witness: a body with priority 6 was rejected on a store that holds   *)
(* one task.                                                                *)
C7_Witness ==
    /\ call.op = "create_task"
    /\ call.status = "422"
    /\ "priority" \in DOMAIN call.req.task
    /\ call.req.task.priority = IntV(6)
    /\ "title" \in DOMAIN call.req.task
    /\ call.req.task.title = StrV(<<"a", "B", "a">>)
    /\ Len(TASKS_DB) = 1

(* results is tasks with some entries left out, the rest in their order.   *)
RECURSIVE IsSubsequence(_, _)
IsSubsequence(results, tasks) ==
    IF results = <<>> THEN TRUE
    ELSE IF tasks = <<>> THEN FALSE
    ELSE IF Head(results) = Head(tasks)
         THEN IsSubsequence(Tail(results), Tail(tasks))
         ELSE IsSubsequence(results, Tail(tasks))

(* C8: the store keeps its tasks in creation order, by strictly increasing *)
(* task_id, whatever was created and updated before; a list that           *)
(* list_tasks returns holds tasks of the store in the store's order, so    *)
(* by strictly increasing task_id.                                          *)
C8_ListOrder ==
    /\ \A i, j \in DOMAIN TASKS_DB :
          i < j => TASKS_DB[i].value.task_id < TASKS_DB[j].value.task_id
    /\ (ListServed /\ call.ret.ok) =>
          /\ IsSubsequence(call.ret.results, Values(TASKS_DB))
          /\ \A i, j \in DOMAIN call.ret.results :
                i < j => call.ret.results[i].task_id < call.ret.results[j].task_id

(* C8 witness: a list filtered by a query returned two tasks, ids 1 then   *)
(* 2, that are not in the order of their priorities.                       *)
C8_Witness ==
    /\ ListServed
    /\ call.status = "200"
    /\ call.req.query # None
    /\ Len(call.body) = 2
    /\ call.body[1].id = 1
    /\ call.body[2].id = 2
    /\ call.body[1].priority = IntV(5)
    /\ call.body[2].priority = IntV(1)

(* The filter of list_tasks applied to an outcome of the filter: to the    *)
(* list it returned, or the error it raised passed on.                      *)
FilterAgain(outcome, min_priority, query, cookie_min_priority) ==
    IF outcome.ok
    THEN list_tasks_result(outcome.results, min_priority, query, cookie_min_priority)
    ELSE outcome

(* C9: filtering the result of list_tasks again with the same parameters   *)
(* gives the same result, and every task of a result filtered by a query   *)
(* has a title that contains the query, case ignored.                       *)
C9_Idempotent ==
    ListServed =>
        /\ FilterAgain(call.ret, call.req.min_priority, call.req.query, ServedCookie)
             = call.ret
        /\ (call.ret.ok /\ call.req.query # None) =>
              \A j \in DOMAIN call.ret.results :
                 /\ IsStr(call.ret.results[j].title)
                 /\ Contains(lower(call.req.query.v), lower(call.ret.results[j].title.v))

(* C9 witness: a query in another case than the title it matched, on a     *)
(* store that also holds a task the query does not match.                   *)
C9_Witness ==
    /\ ListServed
    /\ call.req.query = StrV(<<"A", "B", "A">>)
    /\ call.ret.ok
    /\ Len(TASKS_DB) = 2
    /\ Len(call.ret.results) = 1
    /\ call.ret.results[1].title = StrV(<<"a", "B", "a">>)

(* C10: every stored task has a string title of at least 3 characters and  *)
(* an integer priority in 1..5, and is stored under its task_id.            *)
C10_WellFormed ==
    \A i \in DOMAIN TASKS_DB :
        LET t == TASKS_DB[i].value
        IN  /\ IsStr(t.title) /\ Len(t.title.v) >= 3
            /\ IsInt(t.priority) /\ t.priority.v >= 1 /\ t.priority.v <= 5
            /\ TASKS_DB[i].key = t.task_id

(* The three variants have answered the request in call.                    *)
AllAnswered == call # Idle /\ async_example.resp # Idle /\ relational.resp # Idle

(* C11: the in-memory, the async SQL and the relational variant answer the *)
(* same request, after the same earlier requests, with the same status     *)
(* and, when they accept it, with the same tasks.                           *)
C11_SameContract ==
    AllAnswered =>
        /\ SameAnswer(call, async_example.resp)
        /\ SameAnswer(call, relational.resp)

(* C12: when create_task requests are served concurrently, every created  *)
(* task has its own identifier and none is overwritten: after n answered   *)
(* creates the store holds n tasks under n distinct identifiers.            *)
C12_ConcurrentUniqueIds ==
    /\ Len(TASKS_DB) = threads.served
    /\ Cardinality(Keys(TASKS_DB)) = threads.served
    /\ \A i \in DOMAIN TASKS_DB : TASKS_DB[i].value.task_id = TASKS_DB[i].key

====
